---- MODULE Spec2Model ----
(***************************************************************************)
(* Model of caligo's System module (src/caligo/modules/system.py): the     *)
(* restart / self-update coordinator.  One bot process at a time runs on   *)
(* an asyncio loop: coroutines interleave only at their await points       *)
(* (variable cur holds the coroutine that is inside a synchronous section).*)
(* The document store, the chat transport and the clock outlive a process. *)
(***************************************************************************)
EXTENDS Integers, Sequences, FiniteSets, TLC

\* ---------------------------------------------------------------- bounds
MaxClock == 2         \* util.time.usec() takes the values 1..MaxClock
MaxCmds == 2          \* commands the operator sends in a run
MaxFrames == 3        \* frames of a traceback cmd_eval inspects
MaxSilent == 3        \* coroutines that use silent()

\* every command gets a handler of its own; all of them may be in flight at once
Handlers == 1..MaxCmds

\* ------------------------------------------------------ Python's Optional
None == <<>>
Some(x) == <<x>>

\* dict.get(key): the value, or None when the key is missing
Get(d, k) == IF k \in DOMAIN d THEN Some(d[k]) ELSE None

\* ------------------------------------------------------------ environment
Uid == "bot.uid"
Chats == {-100}
Executable == "python"
\* the command lines the operator may launch the bot with
LaunchArgvs == { <<Executable, "-m", "caligo">>,
                 <<Executable, "-m", "caligo", "--debug">> }
LockFile == "poetry.lock"
\* the change sets a pull may produce (a_path of every change)
Diffs == { {}, {LockFile}, {"caligo/core.py"}, {LockFile, "caligo/core.py"} }

VARIABLES
    db,              \* the "system" collection: a set of documents
    clock,           \* util.time.usec()
    cmds,            \* commands the operator has sent so far
    next_msg_id,     \* transport: id of the next message of a chat
    fetch_log,       \* transport: message ids handed to client.get_messages
    reports,         \* transport: reports handed to bot.respond by on_start
    phase,           \* "loading" | "running" | "exited"
    boot,            \* number of the process image
    argv,            \* argument vector of the running process image
    spawned_by,      \* how this image came to be: "launch" | "execv"
    restart_pending, \* SystemModule.restart_pending
    stop_manual,     \* bot.stop_manual
    stop_requested,  \* bot.stop() has been called in this process
    lock,            \* SystemModule.lock: 0 free, else its holder
    cur,             \* coroutine inside a synchronous section, 0 if none
    start_pc,        \* on_start: position
    start_loc,       \* on_start: locals
    h_pc,            \* command handlers: position
    h_loc,           \* command handlers: locals
    expected_time,   \* history: message id -> timestamp the request chose
    consumed,        \* history: an on_start consumed a record, no write since
    discarded,       \* history: message ids of records deleted unread
    ev_pc,           \* cmd_eval: position
    ev,              \* cmd_eval: the snippet's behaviour and the locals
    sys_stdout,      \* silent(): sys.stdout
    sil_pc,          \* silent(): position of every coroutine using it
    sil_old,         \* silent(): old_stdout of every coroutine
    closed           \* silent(): the devnull handles that are closed

vars == << db, clock, cmds, next_msg_id, fetch_log, reports, phase, boot, argv,
           spawned_by, restart_pending, stop_manual, stop_requested, lock,
           cur, start_pc, start_loc, h_pc, h_loc, expected_time, consumed,
           discarded, ev_pc, ev, sys_stdout, sil_pc, sil_old, closed >>

env_vars == << db, clock, cmds, next_msg_id, fetch_log, reports >>
proc_vars == << phase, boot, argv, spawned_by >>
hist_vars == << expected_time, consumed, discarded >>
eval_vars == << ev_pc, ev >>
silent_vars == << sys_stdout, sil_pc, sil_old, closed >>
\* what the restart coordinator never touches
other_vars == << eval_vars, silent_vars >>
coord_vars == << env_vars, proc_vars, restart_pending, stop_manual,
                 stop_requested, lock, cur, start_pc, start_loc, h_pc, h_loc,
                 hist_vars >>

\* id of the on_start coroutine as lock holder / running coroutine
StartId == MaxCmds + 1

\* --------------------------------------------------------- document store
\* find_one({"_id": id})
find_one(coll, id) ==
    IF \E d \in coll : d._id = id
    THEN Some(CHOOSE d \in coll : d._id = id)
    ELSE None

InArray(arr, x) == \E i \in 1..Len(arr) : arr[i] = x

\* update_one({"_id": id}, {"$addToSet": {"restart": rec}}, upsert=True)
update_one(coll, id, rec) ==
    IF \E d \in coll : d._id = id
    THEN { IF d._id # id \/ InArray(d.restart, rec)
           THEN d
           ELSE [d EXCEPT !.restart = Append(@, rec)] : d \in coll }
    ELSE coll \cup { [_id |-> id, restart |-> <<rec>>] }

\* mutant: the delete matches no document
delete_one_nothing(coll, id) == coll

\* delete_one({"_id": id})
delete_one(coll, id) == { d \in coll : d._id # id }

\* ------------------------------------------------------------ cmd_restart
\* mutant: the supplied timestamp is ignored
ChosenTimeNow(restart_time, now) == now

\* restart_time or util.time.usec()
ChosenTime(restart_time, now) ==
    IF restart_time # None /\ restart_time[1] # 0 THEN restart_time[1] ELSE now

\* the document appended to the "restart" set
RestartRecord(resp_msg, restart_time, reason, now) ==
    [ status_chat_id |-> resp_msg.chat_id,
      status_message_id |-> resp_msg.message_id,
      time |-> ChosenTime(restart_time, now),
      reason |-> reason ]

NoMsg == [chat_id |-> 0, message_id |-> 0]
NoRec == [status_chat_id |-> 0, status_message_id |-> 0, time |-> 0, reason |-> ""]

IdleLoc ==
    [ kind |-> "",              \* command: "restart" | "update" | "stop"
      chat |-> 0,               \* ctx.msg.chat.id
      restart_time |-> None,    \* cmd_restart's restart_time argument
      reason |-> "",            \* cmd_restart's reason argument
      resp_msg |-> NoMsg,       \* cmd_restart: resp_msg
      rec |-> NoRec,            \* cmd_restart: the record handed to update_one
      update_time |-> 0,        \* cmd_update: update_time
      diff |-> {},              \* cmd_update: a_path of the pulled changes
      venv |-> FALSE,           \* cmd_update: get_venv_path() found a prefix
      ret |-> 0,                \* cmd_update: pip's exit code
      reply |-> "",             \* text the handler returned
      restart_calls |-> 0,      \* calls of cmd_restart made by the handler
      persisted |-> FALSE ]     \* its update_one has completed

IdleStart ==
    [ data |-> None, restart |-> NoRec,
      rs_time |-> None, rs_chat_id |-> None, rs_message_id |-> None,
      rs_reason |-> None,
      updated |-> "", now |-> 0, duration |-> 0, failed |-> "" ]

InitCoordinator ==
    /\ db = {}
    /\ clock = 1
    /\ cmds = 0
    /\ next_msg_id = 1
    /\ fetch_log = {}
    /\ reports = {}
    /\ phase = "loading"
    /\ boot = 1
    /\ argv \in LaunchArgvs
    /\ spawned_by = "launch"
    /\ restart_pending = FALSE
    /\ stop_manual = FALSE
    /\ stop_requested = FALSE
    /\ lock = 0
    /\ cur = 0
    /\ start_pc = "not_started"
    /\ start_loc = IdleStart
    /\ h_pc = [h \in Handlers |-> "idle"]
    /\ h_loc = [h \in Handlers |-> IdleLoc]
    /\ expected_time = [m \in 1..MaxCmds |-> 0]
    /\ consumed = FALSE
    /\ discarded = {}

\* cmd_eval before it is called
IdleEval ==
    [ cmd |-> FALSE,            \* ctx.cmd is not empty
      printed |-> <<>>,         \* what the snippet wrote to out_buf
      tb |-> <<>>,              \* file names of the traceback's frames
      first_snip_idx |-> -1,    \* _eval: first_snip_idx
      prefix |-> "",            \* prefix returned by _eval
      result |-> None,          \* result returned by _eval
      formatted_tb |-> <<>>,    \* frames handed to format_exception
      out_buf |-> <<>>,         \* out_buf.getvalue()
      written |-> FALSE,        \* line 209 ran
      out |-> <<>> ]            \* the Out section of the report

InitEval == ev_pc = "idle" /\ ev = IdleEval

\* the streams: the process's own stdout and one devnull handle per coroutine
RealStdout == 0
SilentUsers == 1..MaxSilent

InitSilent ==
    /\ sys_stdout = RealStdout
    /\ sil_pc = [c \in SilentUsers |-> "before"]
    /\ sil_old = [c \in SilentUsers |-> RealStdout]
    /\ closed = {}

Init == InitCoordinator /\ InitEval /\ InitSilent

\* a coroutine may take a step when no other one is in a synchronous section
MayRun(c) == phase = "running" /\ cur \in {0, c}

\* the clock advances
Tick ==
    /\ MayRun(0) /\ clock < MaxClock
    /\ clock' = clock + 1
    /\ UNCHANGED << other_vars, db, cmds, next_msg_id, fetch_log, reports, proc_vars,
                    restart_pending, stop_manual, stop_requested, lock, cur,
                    start_pc, start_loc, h_pc, h_loc, hist_vars >>

\* on_load (lines 26-30)
on_load ==
    /\ phase = "loading"
    /\ restart_pending' = FALSE
    /\ lock' = 0
    /\ phase' = "running"
    /\ start_pc' = "s_find"
    /\ UNCHANGED << other_vars, env_vars, boot, argv, spawned_by, stop_manual,
                    stop_requested, cur, start_loc, h_pc, h_loc, hist_vars >>

\* ------------------------------------------------------- command dispatch
\* the lowest idle handler takes the next command
NextIdle(h) == h_pc[h] = "idle" /\ \A g \in Handlers : g < h => h_pc[g] # "idle"

\* the dispatcher calls cmd_restart(ctx): restart_time=None, reason="manual"
\* (lines 236-242)
DispatchRestart(h) ==
    /\ MayRun(0) /\ NextIdle(h)
    /\ cmds < MaxCmds
    /\ cmds' = cmds + 1
    /\ \E c \in Chats :
          h_loc' = [h_loc EXCEPT ![h] =
                      [IdleLoc EXCEPT !.kind = "restart", !.chat = c,
                                      !.restart_time = None,
                                      !.reason = "manual",
                                      !.restart_calls = 1]]
    /\ h_pc' = [h_pc EXCEPT ![h] = "r_respond"]
    /\ UNCHANGED << other_vars, db, clock, next_msg_id, fetch_log, reports, proc_vars, restart_pending, stop_manual,
                    stop_requested, lock, cur, start_pc, start_loc, hist_vars >>

\* the dispatcher calls cmd_stop(ctx) (line 228)
DispatchStop(h) ==
    /\ MayRun(0) /\ NextIdle(h)
    /\ cmds < MaxCmds
    /\ cmds' = cmds + 1
    /\ \E c \in Chats :
          h_loc' = [h_loc EXCEPT ![h] =
                      [IdleLoc EXCEPT !.kind = "stop", !.chat = c]]
    /\ h_pc' = [h_pc EXCEPT ![h] = "k_ack1"]
    /\ UNCHANGED << other_vars, db, clock, next_msg_id, fetch_log, reports, proc_vars, restart_pending, stop_manual,
                    stop_requested, lock, cur, start_pc, start_loc, hist_vars >>

\* the dispatcher calls cmd_update(ctx) (line 303)
DispatchUpdate(h) ==
    /\ MayRun(0) /\ NextIdle(h)
    /\ cmds < MaxCmds
    /\ cmds' = cmds + 1
    /\ \E c \in Chats :
          h_loc' = [h_loc EXCEPT ![h] =
                      [IdleLoc EXCEPT !.kind = "update", !.chat = c]]
    /\ h_pc' = [h_pc EXCEPT ![h] = "u_resolve"]
    /\ UNCHANGED << other_vars, db, clock, next_msg_id, fetch_log, reports, proc_vars, restart_pending, stop_manual,
                    stop_requested, lock, cur, start_pc, start_loc, hist_vars >>

\* ------------------------------------------------------------ cmd_restart
\* line 243: ctx.respond("Restarting bot...") returns the status message
RestartRespond(h) ==
    /\ MayRun(h) /\ h_pc[h] = "r_respond"
    /\ h_loc' = [h_loc EXCEPT ![h].resp_msg =
                    [chat_id |-> h_loc[h].chat, message_id |-> next_msg_id]]
    /\ next_msg_id' = next_msg_id + 1
    /\ h_pc' = [h_pc EXCEPT ![h] = "r_acquire"]
    /\ cur' = h
    /\ UNCHANGED << other_vars, db, clock, cmds, fetch_log, reports, proc_vars, restart_pending,
                    stop_manual, stop_requested, lock, start_pc, start_loc,
                    hist_vars >>

\* mutant: the record is written without taking the lock
RestartAcquireNoLock(h) ==
    /\ MayRun(h) /\ h_pc[h] = "r_acquire"
    /\ LET rec == RestartRecord(h_loc[h].resp_msg, h_loc[h].restart_time,
                                h_loc[h].reason, clock)
       IN /\ h_loc' = [h_loc EXCEPT ![h].rec = rec]
          /\ expected_time' =
                [expected_time EXCEPT ![h_loc[h].resp_msg.message_id] =
                    IF h_loc[h].restart_time # None
                    THEN h_loc[h].restart_time[1] ELSE clock]
    /\ h_pc' = [h_pc EXCEPT ![h] = "r_write"]
    /\ cur' = 0
    /\ UNCHANGED << other_vars, env_vars, proc_vars, restart_pending,
                    stop_manual, stop_requested, lock, start_pc, start_loc,
                    consumed, discarded >>

\* lines 246-260: enter the lock, build the record, call db.update_one;
\* with the lock taken the coroutine waits for it
RestartAcquire(h) ==
    /\ MayRun(h) /\ h_pc[h] = "r_acquire"
    /\ \/ /\ lock = 0
          /\ lock' = h
          /\ LET rec == RestartRecord(h_loc[h].resp_msg, h_loc[h].restart_time,
                                      h_loc[h].reason, clock)
             IN /\ h_loc' = [h_loc EXCEPT ![h].rec = rec]
                /\ expected_time' =
                      [expected_time EXCEPT ![h_loc[h].resp_msg.message_id] =
                          IF h_loc[h].restart_time # None
                          THEN h_loc[h].restart_time[1] ELSE clock]
          /\ h_pc' = [h_pc EXCEPT ![h] = "r_write"]
          /\ cur' = 0
       \/ /\ lock # 0 /\ cur = h
          /\ cur' = 0
          /\ UNCHANGED << lock, h_loc, h_pc, expected_time >>
    /\ UNCHANGED << other_vars, env_vars, proc_vars, restart_pending, stop_manual,
                    stop_requested, start_pc, start_loc, consumed, discarded >>

\* lines 247-260: the store applies the update handed to db.update_one; the
\* coroutine is still waiting for the answer
RestartApply(h) ==
    /\ MayRun(h) /\ h_pc[h] = "r_write"
    /\ db' = update_one(db, Uid, h_loc[h].rec)
    /\ consumed' = FALSE
    /\ h_pc' = [h_pc EXCEPT ![h] = "r_applied"]
    /\ UNCHANGED << other_vars, clock, cmds, next_msg_id, fetch_log, reports,
                    proc_vars, restart_pending, stop_manual, stop_requested,
                    lock, cur, start_pc, start_loc, h_loc, expected_time,
                    discarded >>

\* lines 247-260: await db.update_one returns
RestartWrite(h) ==
    /\ MayRun(h) /\ h_pc[h] = "r_applied"
    /\ h_loc' = [h_loc EXCEPT ![h].persisted = TRUE]
    /\ h_pc' = [h_pc EXCEPT ![h] = "r_release"]
    /\ cur' = h
    /\ UNCHANGED << other_vars, env_vars, proc_vars, restart_pending,
                    stop_manual, stop_requested, lock, start_pc, start_loc,
                    hist_vars >>

\* mutant: the lock is taken and released by hand, without the with block
RestartWriteFailsKeepsLock(h) ==
    /\ MayRun(h) /\ h_pc[h] = "r_write"
    /\ h_pc' = [h_pc EXCEPT ![h] = "raised"]
    /\ cur' = 0
    /\ UNCHANGED << other_vars, env_vars, proc_vars, restart_pending,
                    stop_manual, stop_requested, lock, start_pc, start_loc,
                    h_loc, hist_vars >>

\* lines 246-260: db.update_one raises (store unavailable); the exception
\* leaves the async with block, which releases the lock, and cmd_restart
RestartWriteFails(h) ==
    /\ MayRun(h) /\ h_pc[h] = "r_write"
    /\ lock' = 0
    /\ h_pc' = [h_pc EXCEPT ![h] = "raised"]
    /\ cur' = 0
    /\ UNCHANGED << other_vars, env_vars, proc_vars, restart_pending, stop_manual,
                    stop_requested, start_pc, start_loc, h_loc, hist_vars >>

\* mutant: the pending flag is set inside the lock block
RestartReleaseSetsFlag(h) ==
    /\ MayRun(h) /\ h_pc[h] = "r_release"
    /\ lock' = 0
    /\ restart_pending' = TRUE
    /\ h_pc' = [h_pc EXCEPT ![h] = "r_flag"]
    /\ UNCHANGED << other_vars, env_vars, proc_vars, stop_manual,
                    stop_requested, cur, start_pc, start_loc, h_loc, hist_vars >>

\* line 260: leaving the async with block releases the lock
RestartRelease(h) ==
    /\ MayRun(h) /\ h_pc[h] = "r_release"
    /\ lock' = 0
    /\ h_pc' = [h_pc EXCEPT ![h] = "r_flag"]
    /\ UNCHANGED << other_vars, env_vars, proc_vars, restart_pending, stop_manual,
                    stop_requested, cur, start_pc, start_loc, h_loc, hist_vars >>

\* line 262: self.restart_pending = True
RestartSetPending(h) ==
    /\ MayRun(h) /\ h_pc[h] = "r_flag"
    /\ restart_pending' = TRUE
    /\ h_pc' = [h_pc EXCEPT ![h] = "r_manual"]
    /\ UNCHANGED << other_vars, env_vars, proc_vars, stop_manual, stop_requested, lock,
                    cur, start_pc, start_loc, h_loc, hist_vars >>

\* line 263: self.bot.stop_manual = True
RestartSetManual(h) ==
    /\ MayRun(h) /\ h_pc[h] = "r_manual"
    /\ stop_manual' = TRUE
    /\ h_pc' = [h_pc EXCEPT ![h] = "r_stop"]
    /\ UNCHANGED << other_vars, env_vars, proc_vars, restart_pending, stop_requested,
                    lock, cur, start_pc, start_loc, h_loc, hist_vars >>

\* line 265: await self.bot.stop()
RestartStop(h) ==
    /\ MayRun(h) /\ h_pc[h] = "r_stop"
    /\ stop_requested' = TRUE
    /\ h_pc' = [h_pc EXCEPT ![h] = "r_stopping"]
    /\ cur' = 0
    /\ UNCHANGED << other_vars, env_vars, proc_vars, restart_pending, stop_manual, lock,
                    start_pc, start_loc, h_loc, hist_vars >>

\* --------------------------------------------------------------- cmd_stop
\* mutant: cmd_stop sets the pending flag instead of the manual-stop flag
StopSetsPending(h) ==
    /\ MayRun(h) /\ h_pc[h] = "k_ack1"
    /\ restart_pending' = TRUE
    /\ h_pc' = [h_pc EXCEPT ![h] = "k_ack2"]
    /\ UNCHANGED << other_vars, env_vars, proc_vars, stop_manual,
                    stop_requested, lock, cur, start_pc, start_loc, h_loc,
                    hist_vars >>

\* lines 229-231: the first acknowledgement is out; set the flag and send
\* the second one
StopSetManual(h) ==
    /\ MayRun(h) /\ h_pc[h] = "k_ack1"
    /\ stop_manual' = TRUE
    /\ h_pc' = [h_pc EXCEPT ![h] = "k_ack2"]
    /\ UNCHANGED << other_vars, env_vars, proc_vars, restart_pending, stop_requested,
                    lock, cur, start_pc, start_loc, h_loc, hist_vars >>

\* line 232: await self.bot.stop()
StopStop(h) ==
    /\ MayRun(h) /\ h_pc[h] = "k_ack2"
    /\ stop_requested' = TRUE
    /\ h_pc' = [h_pc EXCEPT ![h] = "k_stopping"]
    /\ UNCHANGED << other_vars, env_vars, proc_vars, restart_pending, stop_manual, lock,
                    cur, start_pc, start_loc, h_loc, hist_vars >>

\* ------------------------------------------------------------- cmd_update
\* the call at line 364: cmd_restart(ctx, restart_time=update_time,
\* reason="update")
CallRestart(loc) ==
    [loc EXCEPT !.restart_time = Some(loc.update_time),
                !.reason = "update",
                !.restart_calls = @ + 1]

\* lines 304-328: git present, repository and remote resolved, pre-pull time
UpdateResolve(h) ==
    /\ MayRun(h) /\ h_pc[h] = "u_resolve"
    /\ \E have_git, repo, named, remote \in BOOLEAN :
          IF ~have_git
          THEN /\ h_loc' = [h_loc EXCEPT ![h].reply = "git is required"]
               /\ h_pc' = [h_pc EXCEPT ![h] = "returned"]
          ELSE IF ~repo
          THEN /\ h_loc' = [h_loc EXCEPT ![h].reply = "no repository"]
               /\ h_pc' = [h_pc EXCEPT ![h] = "returned"]
          ELSE IF ~remote
          THEN /\ h_loc' = [h_loc EXCEPT ![h].reply =
                              IF named THEN "remote not found"
                                       ELSE "not tracking a remote"]
               /\ h_pc' = [h_pc EXCEPT ![h] = "returned"]
          ELSE /\ h_loc' = [h_loc EXCEPT ![h].update_time = clock]
               /\ h_pc' = [h_pc EXCEPT ![h] = "u_pull"]
    /\ UNCHANGED << other_vars, env_vars, proc_vars, restart_pending, stop_manual,
                    stop_requested, lock, cur, start_pc, start_loc, hist_vars >>

\* line 340: any(change.a_path == "poetry.lock" for change in diff)
TouchesLockFile(diff) == \E a_path \in diff : a_path = LockFile

\* mutant: a changed lock file without a virtualenv still restarts
AfterPullNoVenvCheck(diff, venv) ==
    IF diff = {} THEN "no updates"
    ELSE IF TouchesLockFile(diff) /\ venv THEN "pip" ELSE "restart"

\* the decision of lines 336-364 once the diff is known; pip has not run yet
AfterPull(diff, venv) ==
    IF diff = {} THEN "no updates"
    ELSE IF TouchesLockFile(diff)
         THEN IF venv THEN "pip" ELSE "manual"
         ELSE "restart"

\* lines 331-361: the pull is done; get_venv_path() is asked only when the
\* lock file changed
UpdatePull(h) ==
    /\ MayRun(h) /\ h_pc[h] = "u_pull"
    /\ \E diff \in Diffs, venv \in BOOLEAN :
          LET loc == [h_loc[h] EXCEPT !.diff = diff, !.venv = venv]
              next == AfterPull(diff, venv)
          IN /\ venv => TouchesLockFile(diff)
             /\ CASE next = "no updates" ->
                       /\ h_loc' = [h_loc EXCEPT ![h] =
                                       [loc EXCEPT !.reply = "No updates found."]]
                       /\ h_pc' = [h_pc EXCEPT ![h] = "returned"]
                  [] next = "manual" ->
                       /\ h_loc' = [h_loc EXCEPT ![h] =
                                       [loc EXCEPT !.reply = "update dependencies manually"]]
                       /\ h_pc' = [h_pc EXCEPT ![h] = "returned"]
                  [] next = "pip" ->
                       /\ h_loc' = [h_loc EXCEPT ![h] = loc]
                       /\ h_pc' = [h_pc EXCEPT ![h] = "u_pip"]
                  [] OTHER ->
                       /\ h_loc' = [h_loc EXCEPT ![h] = CallRestart(loc)]
                       /\ h_pc' = [h_pc EXCEPT ![h] = "r_respond"]
    /\ UNCHANGED << other_vars, env_vars, proc_vars, restart_pending, stop_manual,
                    stop_requested, lock, cur, start_pc, start_loc, hist_vars >>

\* line 350: if ret != 0
PipFailed(ret) == ret # 0

\* lines 347-364: pip install is done
UpdatePip(h) ==
    /\ MayRun(h) /\ h_pc[h] = "u_pip"
    /\ \E ret \in {0, 1} :
          LET loc == [h_loc[h] EXCEPT !.ret = ret]
          IN IF PipFailed(ret)
             THEN /\ h_loc' = [h_loc EXCEPT ![h] =
                                 [loc EXCEPT !.reply = "error updating dependencies"]]
                  /\ h_pc' = [h_pc EXCEPT ![h] = "returned"]
             ELSE /\ h_loc' = [h_loc EXCEPT ![h] = CallRestart(loc)]
                  /\ h_pc' = [h_pc EXCEPT ![h] = "r_respond"]
    /\ UNCHANGED << other_vars, env_vars, proc_vars, restart_pending, stop_manual,
                    stop_requested, lock, cur, start_pc, start_loc, hist_vars >>

\* --------------------------------------------------------------- on_start
\* lines 273-276: the fields on_start reads from the first record
ReadRestart(restart) ==
    [ rs_time |-> Get(restart, "time"),
      rs_chat_id |-> Get(restart, "status_chat_id"),
      rs_message_id |-> Get(restart, "status_message_id"),
      rs_reason |-> Get(restart, "restart_reason") ]

\* line 287: "updated and " if rs_reason == "update" else ""
Updated(rs_reason) == IF rs_reason = Some("update") THEN "updated and " ELSE ""

\* line 288: util.time.usec() - rs_time
Duration(now, rs_time) == now - rs_time[1]

\* mutant: the last record of the set is taken
LastRecord(doc) == doc.restart[Len(doc.restart)]

\* line 271: data.get("restart")[0]
FirstRecord(doc) == doc.restart[1]

\* lines 269-276: db.find_one completes; without a document on_start returns
StartFind ==
    /\ MayRun(StartId) /\ start_pc = "s_find"
    /\ LET data == find_one(db, Uid)
       IN IF data = None
          THEN /\ start_loc' = [start_loc EXCEPT !.data = data]
               /\ start_pc' = "done"
               /\ cur' = 0
          ELSE LET restart == FirstRecord(data[1])
                   rs == ReadRestart(restart)
               IN /\ start_loc' = [start_loc EXCEPT
                                      !.data = data,
                                      !.restart = restart,
                                      !.rs_time = rs.rs_time,
                                      !.rs_chat_id = rs.rs_chat_id,
                                      !.rs_message_id = rs.rs_message_id,
                                      !.rs_reason = rs.rs_reason]
                  /\ start_pc' = "s_acquire"
                  /\ cur' = StartId
    /\ UNCHANGED << other_vars, env_vars, proc_vars, restart_pending, stop_manual,
                    stop_requested, lock, h_pc, h_loc, hist_vars >>

\* lines 279-280: enter the lock and call db.delete_one; with the lock taken
\* the coroutine waits for it
StartAcquire ==
    /\ MayRun(StartId) /\ start_pc = "s_acquire"
    /\ \/ /\ lock = 0
          /\ lock' = StartId
          /\ start_pc' = "s_delete"
          /\ cur' = 0
       \/ /\ lock # 0 /\ cur = StartId
          /\ cur' = 0
          /\ UNCHANGED << lock, start_pc >>
    /\ UNCHANGED << other_vars, env_vars, proc_vars, restart_pending, stop_manual,
                    stop_requested, start_loc, h_pc, h_loc, hist_vars >>

\* lines 279-280: db.delete_one completes and the lock is released
StartDelete ==
    /\ MayRun(StartId) /\ start_pc = "s_delete"
    /\ db' = delete_one(db, Uid)
    /\ lock' = 0
    /\ consumed' = TRUE
    /\ discarded' = discarded \cup
          ( UNION { { d.restart[i].status_message_id : i \in 1..Len(d.restart) } :
                    d \in db \ db' }
            \ { start_loc.restart.status_message_id } )
    /\ start_pc' = "s_report"
    /\ cur' = StartId
    /\ UNCHANGED << other_vars, clock, cmds, next_msg_id, fetch_log, reports, proc_vars,
                    restart_pending, stop_manual, stop_requested, start_loc,
                    h_pc, h_loc, expected_time >>

\* lines 283-290: bail out without a chat or message id; else build the
\* report and call client.get_messages
StartReport ==
    /\ MayRun(StartId) /\ start_pc = "s_report"
    /\ IF start_loc.rs_chat_id = None \/ start_loc.rs_message_id = None
       THEN /\ start_pc' = "done"
            /\ UNCHANGED << start_loc, fetch_log >>
       ELSE /\ start_loc' = [start_loc EXCEPT
                                !.updated = Updated(start_loc.rs_reason),
                                !.now = clock,
                                !.duration = Duration(clock, start_loc.rs_time)]
            /\ fetch_log' = fetch_log \cup {start_loc.rs_message_id[1]}
            /\ start_pc' = "s_fetch"
    /\ cur' = 0
    /\ UNCHANGED << other_vars, db, clock, cmds, next_msg_id, reports, proc_vars,
                    restart_pending, stop_manual, stop_requested, lock,
                    h_pc, h_loc, hist_vars >>

\* lines 290-291: client.get_messages returns the status message and
\* bot.respond is called, or get_messages raises and so does on_start
StartFetch ==
    /\ MayRun(StartId) /\ start_pc = "s_fetch"
    /\ \/ /\ start_pc' = "s_edit"
          /\ UNCHANGED start_loc
       \/ /\ start_pc' = "raised"
          /\ start_loc' = [start_loc EXCEPT !.failed = "get_messages"]
    /\ UNCHANGED << other_vars, env_vars, proc_vars, restart_pending, stop_manual,
                    stop_requested, lock, cur, h_pc, h_loc, hist_vars >>

\* line 291: bot.respond edits the status message and on_start returns, or
\* it raises and so does on_start
StartEdit ==
    /\ MayRun(StartId) /\ start_pc = "s_edit"
    /\ \/ /\ reports' = reports \cup
                 { [ chat_id |-> start_loc.rs_chat_id[1],
                     message_id |-> start_loc.rs_message_id[1],
                     updated |-> start_loc.updated,
                     duration |-> start_loc.duration ] }
          /\ start_pc' = "done"
          /\ UNCHANGED start_loc
       \/ /\ start_pc' = "raised"
          /\ start_loc' = [start_loc EXCEPT !.failed = "respond"]
          /\ UNCHANGED reports
    /\ UNCHANGED << other_vars, db, clock, cmds, next_msg_id, fetch_log, proc_vars,
                    restart_pending, stop_manual, stop_requested, lock, cur,
                    h_pc, h_loc, hist_vars >>

\* ------------------------------------------------------------- on_stopped
\* line 297: the argument vector handed to os.execv
ExecArgv(old_argv) == <<Executable, "-m", "caligo">>

\* mutant: on_stopped re-execs whatever the flag says
WantsExecAlways == TRUE

\* line 294: if self.restart_pending
WantsExec == restart_pending

\* a fresh process image: nothing in memory survives
NewImage(args, how) ==
    /\ phase' = "loading"
    /\ boot' = boot + 1
    /\ argv' = args
    /\ spawned_by' = how
    /\ restart_pending' = FALSE
    /\ stop_manual' = FALSE
    /\ stop_requested' = FALSE
    /\ lock' = 0
    /\ cur' = 0
    /\ start_pc' = "not_started"
    /\ start_loc' = IdleStart
    /\ h_pc' = [h \in Handlers |-> "idle"]
    /\ h_loc' = [h \in Handlers |-> IdleLoc]

\* lines 293-298: at the end of the shutdown bot.stop() started, re-exec when
\* a restart is pending; else on_stopped returns and the process ends
on_stopped ==
    /\ MayRun(0) /\ stop_requested
    /\ IF WantsExec
       THEN NewImage(ExecArgv(argv), "execv")
       ELSE /\ phase' = "exited"
            /\ UNCHANGED << boot, argv, spawned_by, restart_pending,
                            stop_manual, stop_requested, lock, cur, start_pc,
                            start_loc, h_pc, h_loc >>
    /\ UNCHANGED << other_vars, env_vars, hist_vars >>

\* the operator starts the bot again
Launch ==
    /\ phase = "exited"
    /\ \E args \in LaunchArgvs : NewImage(args, "launch")
    /\ UNCHANGED << other_vars, env_vars, hist_vars >>

\* ---------------------------------------------------------- specification
Next ==
    \/ on_load
    \/ Launch
    \/ on_stopped
    \/ StartFind
    \/ StartAcquire
    \/ StartDelete
    \/ StartReport
    \/ StartFetch
    \/ StartEdit
    \/ \E h \in Handlers :
          \/ DispatchRestart(h)
          \/ DispatchStop(h)
          \/ DispatchUpdate(h)
          \/ RestartRespond(h)
          \/ RestartAcquire(h)
          \/ RestartApply(h)
          \/ RestartWrite(h)
          \/ RestartWriteFails(h)
          \/ RestartRelease(h)
          \/ RestartSetPending(h)
          \/ RestartSetManual(h)
          \/ RestartStop(h)
          \/ StopSetManual(h)
          \/ StopStop(h)
          \/ UpdateResolve(h)
          \/ UpdatePull(h)
          \/ UpdatePip(h)

\* the coordinator with any interleaving of the commands; the clock stands
\* still (no step of the program depends on its value)
Spec == Init /\ [][Next]_vars

\* the coordinator with a running clock, one command at a time
NextTimed ==
    \/ Tick
    \/ on_load
    \/ Launch
    \/ on_stopped
    \/ StartFind
    \/ StartAcquire
    \/ StartDelete
    \/ StartReport
    \/ StartFetch
    \/ StartEdit
    \/ DispatchRestart(1)
    \/ DispatchStop(1)
    \/ DispatchUpdate(1)
    \/ RestartRespond(1)
    \/ RestartAcquire(1)
    \/ RestartApply(1)
    \/ RestartWrite(1)
    \/ RestartWriteFails(1)
    \/ RestartRelease(1)
    \/ RestartSetPending(1)
    \/ RestartSetManual(1)
    \/ RestartStop(1)
    \/ StopSetManual(1)
    \/ StopStop(1)
    \/ UpdateResolve(1)
    \/ UpdatePull(1)
    \/ UpdatePip(1)

SpecTimed == Init /\ [][NextTimed]_vars

\* ================================================================ claims

\* on_start has read the first record of the owner document
StartHasRecord ==
    \/ start_pc \in {"s_acquire", "s_delete", "s_report", "s_fetch", "s_edit",
                     "raised"}
    \/ start_pc = "done" /\ start_loc.data # None

\* on_start has built its report (line 288 read the clock, which is >= 1)
StartBuiltReport == start_loc.now # 0

\* positions of cmd_restart after line 262 set the pending flag
AfterFlag == {"r_manual", "r_stop", "r_stopping"}

\* C1: every field on_start reads back on the boot after a restart (chat id,
\* message id, timestamp, reason) equals the field cmd_restart wrote.
C1_RoundTrip ==
    (StartHasRecord /\ spawned_by = "execv") =>
        /\ start_loc.rs_chat_id = Some(start_loc.restart.status_chat_id)
        /\ start_loc.rs_message_id = Some(start_loc.restart.status_message_id)
        /\ start_loc.rs_time = Some(start_loc.restart.time)
        /\ start_loc.rs_reason = Some(start_loc.restart.reason)

\* C2: the owner document is deleted before the status message is fetched:
\* no record whose status message was ever handed to get_messages is in the
\* store, so a failed fetch or edit cannot be replayed by a later boot.
C2_DeleteBeforeFetch ==
    /\ \A d \in db : \A i \in 1..Len(d.restart) :
          d.restart[i].status_message_id \notin fetch_log
    /\ start_pc \in {"s_fetch", "s_edit", "raised"} =>
          /\ start_loc.rs_message_id[1] \in fetch_log
          /\ \A d \in db : ~InArray(d.restart, start_loc.restart)

\* a fetch was attempted, no report was delivered, and the third process
\* image found no document
C2_Witness ==
    /\ fetch_log # {} /\ reports = {}
    /\ boot = 3 /\ start_pc = "done" /\ start_loc.data = None

\* C3: once on_start has consumed a record and no restart request has
\* written since, the store holds no owner document and the next on_start
\* finds nothing: it returns without touching the store or the transport.
C3_IdempotentConsumption ==
    /\ [](consumed => find_one(db, Uid) = None)
    /\ [][ (consumed /\ start_pc = "s_find" /\ start_pc' # "s_find"
                     /\ phase' = "running")
           => /\ start_pc' = "done"
              /\ start_loc'.data = None
              /\ db' = db /\ reports' = reports /\ fetch_log' = fetch_log ]_vars

\* an earlier image consumed the record; this image's on_start found nothing
C3_Witness ==
    /\ consumed /\ fetch_log # {}
    /\ start_pc = "done" /\ start_loc.data = None

\* C4: when the process leaves the running phase (on_stopped), it re-execs
\* if restart_pending is true and terminates if it is false; the flag is true
\* only once a restart request has passed line 262.
C4_ExecIffPending ==
    /\ [](restart_pending => \E h \in Handlers : h_pc[h] \in AfterFlag)
    /\ [][ (phase = "running" /\ phase' # "running")
           => IF restart_pending
              THEN phase' = "loading" /\ spawned_by' = "execv" /\ boot' = boot + 1
              ELSE phase' = "exited" /\ boot' = boot ]_vars

\* a re-exec'd image has terminated normally
C4_Witness == phase = "exited" /\ spawned_by = "execv" /\ ~restart_pending

\* C5: inside cmd_restart the acknowledgement comes first, the record is
\* written while the lock is held, then the lock is released, the pending
\* flag set, the manual-stop flag set and the stop requested; whenever the
\* pending flag is true the write of a request has completed.
C5_RestartOrdering ==
    /\ \A h \in Handlers :
          /\ h_pc[h] \in {"r_acquire", "r_write", "r_applied", "r_release",
                           "r_flag"} \cup AfterFlag
                => h_loc[h].resp_msg # NoMsg
          /\ h_pc[h] \in {"r_respond", "r_acquire"}
                => h_loc[h].rec = NoRec /\ ~h_loc[h].persisted /\ lock # h
          /\ h_pc[h] \in {"r_write", "r_applied"}
                => lock = h /\ ~h_loc[h].persisted
          /\ h_pc[h] \in {"r_applied", "r_release"}
                => \E d \in db : InArray(d.restart, h_loc[h].rec)
          /\ h_pc[h] = "r_release"
                => /\ lock = h /\ h_loc[h].persisted
                   /\ \E d \in db : InArray(d.restart, h_loc[h].rec)
          /\ h_pc[h] \in {"r_flag"} \cup AfterFlag
                => lock # h /\ h_loc[h].persisted
          /\ h_pc[h] \in AfterFlag => restart_pending
          /\ h_pc[h] \in {"r_stop", "r_stopping"} => stop_manual
          /\ h_pc[h] = "r_stopping" => stop_requested
    /\ restart_pending
          => \E h \in Handlers : h_pc[h] \in AfterFlag /\ h_loc[h].persisted
    /\ (stop_manual /\ \A h \in Handlers : h_loc[h].kind # "stop")
          => \E h \in Handlers : h_pc[h] \in {"r_stop", "r_stopping"}
    /\ (stop_requested /\ \A h \in Handlers : h_loc[h].kind # "stop")
          => \E h \in Handlers : h_pc[h] = "r_stopping"

\* a restart request ran to its end: record in the store, flags set, stop
\* requested
C5_Witness ==
    \E h \in Handlers :
       /\ h_pc[h] = "r_stopping" /\ restart_pending /\ stop_requested
       /\ \E d \in db : InArray(d.restart, h_loc[h].rec)

\* C6: when the fetch or the edit of the status message fails, on_start
\* still completes without raising, with the store already cleared.
C6_FailureReachesIdle ==
    start_loc.failed # "" =>
        /\ start_pc = "done"
        /\ \A d \in db : ~InArray(d.restart, start_loc.restart)

\* C7: the report of the boot after a restart carries the 'updated'
\* qualifier exactly when the record was written with reason update.
C7_UpdatedQualifier ==
    (StartBuiltReport /\ spawned_by = "execv") =>
        start_loc.updated =
            (IF start_loc.restart.reason = "update" THEN "updated and " ELSE "")

\* the outcome of the pull that lets cmd_update restart
UpdateMayRestart(loc) ==
    /\ loc.diff # {}
    /\ \/ LockFile \notin loc.diff
       \/ loc.venv /\ loc.ret = 0

\* C8: cmd_update calls cmd_restart only after a non-empty diff that either
\* leaves the lock file alone or was followed by a reinstall with exit code
\* 0; in every other outcome it returns a text and makes no call of
\* cmd_restart: it persists nothing, sets no flag and requests no stop.
C8_UpdateRestartsOnlyWhenReady ==
    /\ \A h \in Handlers : h_loc[h].kind = "update" =>
          /\ h_loc[h].restart_calls > 0 <=> h_pc[h] \notin
                {"u_resolve", "u_pull", "u_pip", "returned"}
          /\ h_loc[h].restart_calls > 0 => UpdateMayRestart(h_loc[h])
          /\ h_pc[h] = "returned" =>
                /\ h_loc[h].reply # ""
                /\ h_loc[h].restart_calls = 0
                /\ h_loc[h].resp_msg = NoMsg
                /\ h_loc[h].rec = NoRec
                /\ ~h_loc[h].persisted
    /\ (\A h \in Handlers : h_loc[h].restart_calls = 0 /\ h_loc[h].kind # "stop")
          => /\ ~restart_pending /\ ~stop_manual /\ ~stop_requested
             /\ lock \notin Handlers

\* one cmd_update returned the manual-update text, another one went through
\* pip and the whole restart
C8_Witness ==
    \E g, h \in Handlers :
       /\ h_loc[g].kind = "update" /\ h_pc[g] = "returned"
       /\ h_loc[g].reply = "update dependencies manually"
       /\ h_loc[h].kind = "update" /\ h_pc[h] = "r_stopping"
       /\ LockFile \in h_loc[h].diff

\* C9: the downtime on_start reports is the clock at resume minus the
\* timestamp the request chose: the supplied one when one was supplied
\* (cmd_update's pre-pull clock value), else the clock at the request.
C9_Downtime ==
    /\ StartBuiltReport =>
          start_loc.duration =
             start_loc.now - expected_time[start_loc.rs_message_id[1]]
    /\ \A r \in reports : r.duration + expected_time[r.message_id] \in 1..clock
    /\ \A h \in Handlers : h_loc[h].rec # NoRec =>
          /\ h_loc[h].rec.time = expected_time[h_loc[h].resp_msg.message_id]
          /\ h_loc[h].kind = "update" => h_loc[h].rec.time = h_loc[h].update_time

\* the report of an update-driven restart shows a downtime of at least one
\* tick
C9_Witness ==
    /\ start_pc = "done" /\ start_loc.restart.reason = "update"
    /\ \E r \in reports : r.duration >= 1 /\ r.duration = start_loc.duration

\* C10: the argument vector handed to the re-exec equals the argument vector
\* of the process it replaces.
C10_SameArgv ==
    [][ (boot' = boot + 1 /\ spawned_by' = "execv") => argv' = argv ]_vars

\* positions of cmd_restart inside the async with block
InWrite == {"r_write", "r_applied", "r_release"}

RecordFields == {"status_chat_id", "status_message_id", "time", "reason"}

\* C11: at most one restart request is inside the store write at a time and
\* it holds the lock; every record of every owner document is complete: the
\* four fields of exactly one request.
C11_SerializedWrites ==
    /\ \A g, h \in Handlers :
          (h_pc[g] \in InWrite /\ h_pc[h] \in InWrite) => g = h
    /\ \A h \in Handlers : h_pc[h] \in InWrite => lock = h
    /\ start_pc = "s_delete" => lock = StartId
    /\ \A d \in db : \A i \in 1..Len(d.restart) :
          LET r == d.restart[i]
          IN /\ DOMAIN r = RecordFields
             /\ r.status_chat_id \in Chats
             /\ r.status_message_id \in 1..(next_msg_id - 1)
             /\ r.reason \in {"manual", "update"}
             /\ r.time = expected_time[r.status_message_id]
             /\ \A j \in 1..Len(d.restart) :
                   d.restart[j].status_message_id = r.status_message_id => j = i
             /\ \A h \in Handlers :
                   h_loc[h].resp_msg.message_id = r.status_message_id
                      => r = h_loc[h].rec

\* one request waits for the lock while the write of another is in the store
C11_Witness ==
    \E g, h \in Handlers :
       /\ h_pc[g] = "r_applied" /\ lock = g
       /\ h_pc[h] = "r_acquire" /\ h_loc[h].resp_msg # NoMsg /\ cur = 0

\* C12: cmd_stop sets the manual-stop flag and requests the stop without
\* writing to the store or touching the pending flag; a process in which no
\* restart was requested terminates at shutdown instead of re-executing.
C12_StopWritesNothing ==
    /\ [](\A h \in Handlers : h_loc[h].kind = "stop" =>
             /\ h_loc[h].rec = NoRec /\ ~h_loc[h].persisted /\ lock # h
             /\ h_pc[h] \in {"k_ack2", "k_stopping"} => stop_manual
             /\ h_pc[h] = "k_stopping" => stop_requested)
    /\ []((\A h \in Handlers : h_loc[h].restart_calls = 0) => ~restart_pending)
    /\ [][ (\E h \in Handlers : /\ h_loc[h].kind = "stop"
                                /\ h_pc'[h] # h_pc[h] /\ boot' = boot)
           => db' = db /\ restart_pending' = restart_pending ]_vars
    /\ [][ ( /\ phase = "running" /\ phase' # "running"
             /\ \A h \in Handlers : h_loc[h].restart_calls = 0 )
           => phase' = "exited" /\ boot' = boot ]_vars

\* a process that only ever got stop commands has terminated
C12_Witness ==
    /\ phase = "exited"
    /\ \E h \in Handlers : h_pc[h] = "k_stopping"
    /\ \A h \in Handlers : h_loc[h].restart_calls = 0

\* C16: a failed store write surfaces as a failure of cmd_restart with the
\* lock released and nothing else changed: no record, no flag, no stop
\* request, and no re-exec on account of that request.
C16_WriteFailure ==
    /\ [](\A h \in Handlers : h_pc[h] = "raised" =>
             /\ lock # h /\ ~h_loc[h].persisted
             /\ \A d \in db : ~InArray(d.restart, h_loc[h].rec))
    /\ []((\A h \in Handlers : h_loc[h].restart_calls > 0 => h_pc[h] = "raised")
             => /\ ~restart_pending
                /\ (\A h \in Handlers : h_loc[h].kind # "stop")
                      => ~stop_manual /\ ~stop_requested)
    /\ [][ (\E h \in Handlers : h_pc[h] = "r_write" /\ h_pc'[h] = "raised")
           => /\ lock' = 0
              /\ UNCHANGED << db, restart_pending, stop_manual, stop_requested >>
         ]_vars
    /\ [][ ( /\ phase = "running" /\ phase' # "running"
             /\ \A h \in Handlers :
                   h_loc[h].restart_calls > 0 => h_pc[h] = "raised" )
           => phase' = "exited" /\ boot' = boot ]_vars

\* a restart request failed at the write and the process later terminated
C16_Witness ==
    /\ phase = "exited"
    /\ \E h \in Handlers : h_pc[h] = "raised"

\* C17: with several records in the owner document, on_start takes the
\* first one, deletes the whole document and fetches and edits only the
\* first record's message; the other records are in no later document and
\* are never fetched or reported.
C17_FirstRecordOnly ==
    /\ [](StartHasRecord =>
             /\ start_loc.restart = start_loc.data[1].restart[1]
             /\ start_loc.rs_message_id =
                   Some(start_loc.data[1].restart[1].status_message_id))
    /\ [](/\ fetch_log \cap discarded = {}
          /\ \A r \in reports : r.message_id \notin discarded
          /\ \A d \in db : \A i \in 1..Len(d.restart) :
                d.restart[i].status_message_id \notin discarded)
    /\ [][ (start_pc = "s_delete" /\ start_pc' = "s_report")
           => find_one(db', Uid) = None ]_vars

\* a document of two records was consumed: one report, one record dropped
C17_Witness ==
    /\ start_pc = "done" /\ start_loc.data # None
    /\ Len(start_loc.data[1].restart) = 2
    /\ Cardinality(reports) = 1 /\ Cardinality(discarded) = 1
    /\ db = {}

\* C18: no process terminates without re-executing while a record it wrote
\* sits in the store.
C18_NoStaleRecord ==
    phase = "exited" =>
        \A h \in Handlers : \A d \in db : ~InArray(d.restart, h_loc[h].rec)

\* C19: the delete of on_start removes only records that were in the
\* document on_start read.
C19_DeleteOnlyWhatWasRead ==
    [][ (start_pc = "s_delete" /\ start_pc' = "s_report")
        => \A d \in db \ db' : \A i \in 1..Len(d.restart) :
              InArray(start_loc.data[1].restart, d.restart[i]) ]_vars

-----------------------------------------------------------------------------
\* cmd_eval (lines 132-225)

\* a string is a sequence of pieces; a piece is plain text or one rendered
\* traceback frame.  The empty string is the empty sequence.
Text(t) == [text |-> t, file |-> <<>>]
FrameLine(f) == [text |-> "File", file |-> f]
Newline == Text("\n")
Str(t) == IF t = "" THEN <<>> ELSE << Text(t) >>

\* file names of traceback frames: directory part and last part
SnippetFile == << "<string>" >>
AstFile     == << "/usr/lib/python3/", "ast.py" >>
MevalFile   == << "site-packages/meval/", "__init__.py" >>
SystemFile  == << "caligo/modules/", "system.py" >>
LibFile     == << "site-packages/pyrogram/", "client.py" >>
Filenames   == { SnippetFile, AstFile, MevalFile, SystemFile, LibFile }

RECURSIVE SeqsUpTo(_, _)
SeqsUpTo(S, n) ==
    IF n = 0 THEN { <<>> }
    ELSE LET shorter == SeqsUpTo(S, n - 1)
         IN shorter \cup { Append(q, x) : q \in shorter, x \in S }

\* an exception caught on line 183 has the frame of line 182 first
Tracebacks == { << SystemFile >> \o q : q \in SeqsUpTo(Filenames, MaxFrames - 1) }

\* what a snippet can have written to out_buf through print
Prints == { <<>>, << Text("hello"), Newline >>, << Text("hello") >>, << Newline >> }

\* what a snippet can return: nothing, a value, the empty string
Results == { None, Some(Str("42")), Some(Str("")) }

\* str.endswith on a file name
EndsWith(f, suffix) == Len(f) > 0 /\ f[Len(f)] = suffix

\* mutant: only the synthetic source marker counts
IsSnippetFrameStringOnly(f) == f = SnippetFile

\* lines 188-190: the test of the loop
IsSnippetFrame(f) == f = SnippetFile \/ EndsWith(f, "ast.py")

\* lines 185-192: index (from 0) of the first matching frame, -1 if none
FirstSnipIdx(tb) ==
    LET hits == { i \in 1..Len(tb) : IsSnippetFrame(tb[i]) }
    IN IF hits = {} THEN -1
       ELSE (CHOOSE i \in hits : \A j \in hits : i <= j) - 1

\* mutant: the whole traceback is formatted
StrippedTbWhole(tb, idx) == tb

\* line 199: tb[first_snip_idx:]
StrippedTb(tb, idx) == SubSeq(tb, idx + 1, Len(tb))

\* util.error.format_exception(e, tb=...): one line per frame it is given,
\* then the exception
format_exception(tb) ==
    [i \in 1..Len(tb) |-> FrameLine(tb[i])] \o << Text("Exception") >>

\* str(result) as print renders it
StrOf(result) == IF result = None THEN Str("None") ELSE result[1]

\* mutant: the result is written only when nothing was printed
WritesResultBoth(buf, result) == buf = <<>> /\ result # None

\* line 208: not out_buf.getvalue() or result is not None
WritesResult(buf, result) == buf = <<>> \/ result # None

\* lines 215-217: strip one final newline
StripOneNewline(out) ==
    IF Len(out) > 0 /\ out[Len(out)] = Newline
    THEN SubSeq(out, 1, Len(out) - 1) ELSE out

\* lines 133-134: no code given
EvalUsage ==
    /\ ev_pc = "idle"
    /\ ev_pc' = "usage"
    /\ UNCHANGED << ev, coord_vars, silent_vars >>

\* lines 135-182: the snippet runs to its end
EvalReturns ==
    /\ ev_pc = "idle"
    /\ \E printed \in Prints, result \in Results :
          ev' = [ev EXCEPT !.cmd = TRUE, !.printed = printed,
                           !.out_buf = printed, !.prefix = "",
                           !.result = result]
    /\ ev_pc' = "evaluated"
    /\ UNCHANGED << coord_vars, silent_vars >>

\* lines 182-201: meval raises; the except clause looks for the snippet
EvalRaises ==
    /\ ev_pc = "idle"
    /\ \E printed \in Prints, tb \in Tracebacks :
          LET idx == FirstSnipIdx(tb)
          IN IF idx = -1
             THEN /\ ev' = [ev EXCEPT !.cmd = TRUE, !.printed = printed,
                                      !.out_buf = printed, !.tb = tb,
                                      !.first_snip_idx = idx]
                  /\ ev_pc' = "propagated"
             ELSE /\ ev' = [ev EXCEPT !.cmd = TRUE, !.printed = printed,
                                      !.out_buf = printed, !.tb = tb,
                                      !.first_snip_idx = idx,
                                      !.formatted_tb =
                                          format_exception(StrippedTb(tb, idx)),
                                      !.prefix = "Error executing snippet",
                                      !.result =
                                          Some(format_exception(StrippedTb(tb, idx)))]
                  /\ ev_pc' = "evaluated"
    /\ UNCHANGED << coord_vars, silent_vars >>

\* lines 207-209: print(result, file=out_buf)
EvalWrite ==
    /\ ev_pc = "evaluated"
    /\ IF WritesResult(ev.out_buf, ev.result)
       THEN ev' = [ev EXCEPT !.out_buf = @ \o StrOf(ev.result) \o << Newline >>,
                             !.written = TRUE]
       ELSE ev' = ev
    /\ ev_pc' = "written"
    /\ UNCHANGED << coord_vars, silent_vars >>

\* lines 214-225: build the report
EvalReport ==
    /\ ev_pc = "written"
    /\ ev' = [ev EXCEPT !.out = StripOneNewline(ev.out_buf)]
    /\ ev_pc' = "returned"
    /\ UNCHANGED << coord_vars, silent_vars >>

NextEval ==
    \/ EvalUsage
    \/ EvalReturns
    \/ EvalRaises
    \/ EvalWrite
    \/ EvalReport

SpecEval == Init /\ [][NextEval]_vars

\* the snippet ran to its end and the report is built
EvalRan == ev_pc = "returned" /\ ev.prefix = ""

\* an error report of the snippet was produced
EvalReported == ev_pc \in {"evaluated", "written", "returned"} /\ ev.prefix # ""

Placeholder == Str("[no output]")

\* C13 (as stated): the result is written exactly when nothing was printed
\* and the result is not empty; an empty buffer is shown as `[no output]`;
\* printed text with a returned value shows only the printed text.
C13_AsStated ==
    EvalRan =>
       /\ ev.written <=> (ev.printed = <<>> /\ ev.result # None)
       /\ (ev.printed = <<>> /\ ev.result = None) => ev.out = Placeholder
       /\ (ev.printed # <<>> /\ ev.result # None)
             => ev.out = StripOneNewline(ev.printed)

\* C13 (amended): the result is written exactly when nothing was printed or
\* the result is not None, and there is no placeholder: printed text alone is
\* shown as printed, a value alone is shown, printed text and a value are
\* both shown, and nothing printed and nothing returned shows `None`.
C13_OutputRule ==
    EvalRan =>
       /\ ev.written <=> (ev.printed = <<>> \/ ev.result # None)
       /\ (ev.printed # <<>> /\ ev.result = None)
             => ev.out = StripOneNewline(ev.printed)
       /\ (ev.printed = <<>> /\ ev.result # None) => ev.out = ev.result[1]
       /\ (ev.printed # <<>> /\ ev.result # None)
             => ev.out = ev.printed \o ev.result[1]
       /\ (ev.printed = <<>> /\ ev.result = None) => ev.out = Str("None")
       /\ ev.out # Placeholder

\* text was printed and a value returned: the report shows both
C13_Witness ==
    /\ EvalRan /\ ev.printed = << Text("hello"), Newline >>
    /\ ev.result = Some(Str("42"))
    /\ ev.out = << Text("hello"), Newline, Text("42") >>

\* the frames a formatted trace shows
ShownFrames == { ev.formatted_tb[i].file : i \in 1..(Len(ev.formatted_tb) - 1) }

\* C14 (as stated): the formatted trace contains only frames of the snippet.
C14_AsStated ==
    EvalReported => ShownFrames \subseteq { SnippetFile }

\* C14 (amended): the formatted trace is the traceback from its first frame
\* that is of the snippet or of ast.py to its end: every frame before that
\* one is dropped, every frame after it is kept, whatever its file.
C14_TraceSuffix ==
    EvalReported =>
       LET k == ev.first_snip_idx + 1
       IN /\ k \in 1..Len(ev.tb)
          /\ ev.tb[k] = SnippetFile \/ EndsWith(ev.tb[k], "ast.py")
          /\ \A i \in 1..(k - 1) :
                ev.tb[i] # SnippetFile /\ ~EndsWith(ev.tb[i], "ast.py")
          /\ Len(ev.formatted_tb) = Len(ev.tb) - k + 2
          /\ \A i \in k..Len(ev.tb) :
                ev.formatted_tb[i - k + 1] = FrameLine(ev.tb[i])
          /\ ev.result = Some(ev.formatted_tb)

\* framework frames before the snippet are dropped, one after it is shown
C14_Witness ==
    /\ EvalReported
    /\ ev.tb = << SystemFile, SnippetFile, LibFile >>
    /\ ShownFrames = { SnippetFile, LibFile }

-----------------------------------------------------------------------------
\* silent() (src/caligo/util/silent.py, lines 6-14)

\* lines 8-11: open devnull, remember sys.stdout, redirect it, yield
SilentEnter(c) ==
    /\ sil_pc[c] = "before"
    /\ sil_old' = [sil_old EXCEPT ![c] = sys_stdout]
    /\ sys_stdout' = c
    /\ sil_pc' = [sil_pc EXCEPT ![c] = "inside"]
    /\ UNCHANGED << closed, coord_vars, eval_vars >>

\* lines 12-14: the body ends; finally restores, the with block closes devnull
SilentExit(c) ==
    /\ sil_pc[c] = "inside"
    /\ sys_stdout' = sil_old[c]
    /\ closed' = closed \cup {c}
    /\ sil_pc' = [sil_pc EXCEPT ![c] = "left"]
    /\ UNCHANGED << sil_old, coord_vars, eval_vars >>

\* lines 12-14: the body raises; finally and the with block run all the same
SilentRaise(c) ==
    /\ sil_pc[c] = "inside"
    /\ sys_stdout' = sil_old[c]
    /\ closed' = closed \cup {c}
    /\ sil_pc' = [sil_pc EXCEPT ![c] = "raised"]
    /\ UNCHANGED << sil_old, coord_vars, eval_vars >>

NextSilent ==
    \E c \in SilentUsers :
       \/ SilentEnter(c)
       \/ SilentExit(c)
       \/ SilentRaise(c)

SpecSilent == Init /\ [][NextSilent]_vars

\* C20: once every silent() context has been left, sys.stdout is the stream
\* that was in place before the first entry, never a closed devnull handle.
C20_StdoutRestored ==
    (\A c \in SilentUsers : sil_pc[c] # "inside") =>
        sys_stdout = RealStdout /\ sys_stdout \notin closed

====
